---------------------------- MODULE Spec2Model ----------------------------
(***************************************************************************)
(* Payment reconciliation state machine of                                 *)
(* backend/app/services/payment_state_service.py: the payment_sessions     *)
(* table (alembic 004), PaymentStateService._upsert_session and its two    *)
(* entry points register_payment_attempt and sync_with_payment_info, and   *)
(* mark_completed.                                                         *)
(*                                                                         *)
(* Optional[T] values are sequences: <<>> is None and <<v>> is the value   *)
(* v.  A datetime is an integer (hours since 2024-05-01 00:00 UTC for the  *)
(* gateway deadlines, the reading of the wall clock for the call times), a *)
(* Decimal is an integer number of cents.                                  *)
(***************************************************************************)
EXTENDS Integers, Sequences, FiniteSets, TLC

VARIABLES store, nextId, clock, task

vars == <<store, nextId, clock, task>>

\* ------------------------------------------------------------------ values

None == <<>>

Some(v) == <<v>>

\* Python truthiness of an Optional[str]: None and "" are falsy.
Truthy(x) == x # None /\ x # Some("")

PENDING == "pending"

APPROVED == "approved"

COMPLETED == "completed"

FAILED == "failed"

EXPIRED == "expired"

Tasks == {"t1", "t2"}

\* The columns of payment_sessions.
Columns ==
    {"id", "user_id", "payment_id", "preference_id", "status",
     "mercadopago_status", "detail", "credits_amount", "amount",
     "expires_at", "last_sync_at", "created_at", "updated_at"}

\* ------------------------------------------------------------------ bounds

\* Calls per behaviour of the sequential specifications.
MaxCalls == 3

MaxFieldCalls == 2

\* Calls per behaviour of the concurrent specification.
MaxConcCalls == 3

\* Calls in a behaviour of SpecMark.
MaxMarkCalls == 3

\* Calls in a behaviour of SpecInput.
MaxInputCalls == 3

\* Calls in a behaviour of SpecAccess.
MaxAccessCalls == 3

\* Calls in a behaviour of SpecStatus.
MaxStatusCalls == 2

\* Rows of credit_transactions when the reference backfill runs.
MaxRows == 3

\* Calls in a behaviour of SpecOwner.
MaxOwnerCalls == 3

\* Calls in a behaviour of SpecParse.
MaxParseCalls == 2

\* Clock readings in a behaviour of SpecLatest.
MaxLatestCalls == 3

\* ------------------------------------------------------- parsing subroutines

\* str.lower() on the gateway tokens of the model.
Lower(s) ==
    CASE s = "APPROVED" -> "approved"
      [] s = "Rejected" -> "rejected"
      [] s = "In_Process" -> "in_process"
      [] s = "EXPIRED" -> "expired"
      [] s = "COMPLETED" -> "completed"
      [] s = "Charged_Back" -> "charged_back"
      [] OTHER -> s

_map_mp_status_all_pending(mp_status) == PENDING

_map_mp_status_by_name(mp_status) ==
    IF ~Truthy(mp_status) THEN PENDING
    ELSE IF Lower(mp_status[1]) \in {"approved", "completed", "failed", "expired"}
    THEN Lower(mp_status[1])
    ELSE PENDING

_map_mp_status(mp_status) ==
    IF ~Truthy(mp_status) THEN PENDING
    ELSE LET normalized == Lower(mp_status[1]) IN
         IF normalized \in {"pending", "in_process"} THEN PENDING
         ELSE IF normalized \in {"approved", "authorized"} THEN APPROVED
         ELSE IF normalized \in {"cancelled", "rejected", "refunded", "charged_back"}
              THEN FAILED
         ELSE IF normalized \in {"expired"} THEN EXPIRED
         ELSE PENDING

\* datetime.fromisoformat of the stripped candidate with Z replaced by +00:00,
\* then astimezone(utc) and tzinfo dropped; ValueError gives None.
_parse_datetime(value) ==
    IF ~Truthy(value) THEN None
    ELSE CASE value[1] = "2024-05-01T12:00:00Z" -> Some(12)
           [] value[1] = " 2024-05-01T12:00:00Z " -> Some(12)
           [] value[1] = "2024-05-01T09:00:00-03:00" -> Some(12)
           [] value[1] = "2024-05-02T00:00:00" -> Some(24)
           [] value[1] = "   " -> None
           [] value[1] = "not-a-date" -> None
           [] value[1] = "2024-13-45T00:00:00" -> None
           [] OTHER -> None

\* Decimal("NaN"): a Decimal that is no amount (the amounts of the model are
\* cents, never negative).
DecimalNaN == -1

\* Decimal(str(value)); InvalidOperation gives None. Decimal accepts "NaN".
_to_decimal(value) ==
    IF value \in {None, Some("")} THEN None
    ELSE CASE value[1] = "10.50" -> Some(1050)
           [] value[1] = "20" -> Some(2000)
           [] value[1] = "0" -> Some(0)
           [] value[1] = "NaN" -> Some(DecimalNaN)
           [] value[1] = "abc" -> None
           [] value[1] = "12,50" -> None
           [] OTHER -> None

\* int(credits_amount) if credits_amount is not None else None
IntOrNone(value) ==
    IF value = None THEN None
    ELSE CASE value[1] = "500" -> Some(500)
           [] value[1] = "750" -> Some(750)
           [] value[1] = "0" -> Some(0)

\* --------------------------------------------------------------- the store

\* select(PaymentSession).where(PaymentSession.payment_id == payment_id)
SelectByPaymentId(st, payment_id) == {r \in st : r.payment_id = payment_id}

UpsertArgs(user_id, payment_id, preference_id, status, mp_status, detail, credits_amount, amount, expires_at) ==
    [user_id |-> user_id, payment_id |-> payment_id,
     preference_id |-> preference_id, status |-> status,
     mp_status |-> mp_status, detail |-> detail,
     credits_amount |-> credits_amount, amount |-> amount,
     expires_at |-> expires_at]

NoArgs == UpsertArgs(0, "", None, PENDING, None, None, None, None, None)

MergeStatusAlwaysAdopt(current, status) == status

MergeStatusUnlessApproved(current, status) ==
    IF current # APPROVED THEN status ELSE current

MergeStatusAsTable(current, status) ==
    IF current = COMPLETED /\ status \in {FAILED, EXPIRED} THEN current ELSE status

\* if instance.status != COMPLETED: instance.status = status
\* elif status in (FAILED, EXPIRED): logger.warning(...)
MergeStatus(current, status) ==
    IF current # COMPLETED THEN status ELSE current

FillInBlanking(current, value) == value

FillInOnce(current, value) == IF current = None THEN value ELSE current

\* if value is not None: instance.<field> = value
\* (if expires_at: for the deadline; a datetime is never falsy)
FillIn(current, value) ==
    IF value # None THEN value ELSE current

FillInNotNone(current, value) == IF value # None THEN value ELSE current

\* if preference_id: instance.preference_id = preference_id
FillInNonEmpty(current, value) ==
    IF Truthy(value) THEN value ELSE current

MergeUpdateKeepingDetail(instance, a, now) ==
    [instance EXCEPT
        !.user_id = a.user_id,
        !.preference_id = FillInNonEmpty(@, a.preference_id),
        !.mercadopago_status = a.mp_status,
        !.detail = IF a.detail # None THEN a.detail ELSE @,
        !.credits_amount = FillIn(@, a.credits_amount),
        !.amount = FillIn(@, a.amount),
        !.expires_at = FillIn(@, a.expires_at),
        !.status = MergeStatus(@, a.status),
        !.last_sync_at = Some(now)]

MergeUpdateStatusOnly(instance, a, now) ==
    [instance EXCEPT
        !.user_id = a.user_id,
        !.preference_id = FillInNonEmpty(@, a.preference_id),
        !.mercadopago_status = a.mp_status,
        !.detail = a.detail,
        !.credits_amount = FillIn(@, a.credits_amount),
        !.amount = FillIn(@, a.amount),
        !.expires_at = FillIn(@, a.expires_at),
        !.status = MergeStatus(@, a.status)]

\* The branch "if instance:" of _upsert_session.
MergeUpdate(instance, a, now) ==
    [instance EXCEPT
        !.user_id = a.user_id,
        !.preference_id = FillInNonEmpty(@, a.preference_id),
        !.mercadopago_status = a.mp_status,
        !.detail = a.detail,
        !.credits_amount = FillIn(@, a.credits_amount),
        !.amount = FillIn(@, a.amount),
        !.expires_at = FillIn(@, a.expires_at),
        !.status = MergeStatus(@, a.status),
        !.last_sync_at = Some(now)]

\* The branch "else:" of _upsert_session: PaymentSession(...); id, created_at
\* and updated_at are left to the INSERT.
NewSession(a, now) ==
    [id |-> 0, user_id |-> a.user_id, payment_id |-> a.payment_id,
     preference_id |-> a.preference_id, status |-> a.status,
     mercadopago_status |-> a.mp_status, detail |-> a.detail,
     credits_amount |-> a.credits_amount, amount |-> a.amount,
     expires_at |-> a.expires_at, last_sync_at |-> Some(now),
     created_at |-> 0, updated_at |-> 0]

MarkCompletedUpdateAsUpsert(instance, a, now) == MergeUpdate(instance, a, now)

\* The body of "async with db.begin_nested()" of mark_completed.
MarkCompletedUpdate(instance, a, now) ==
    [instance EXCEPT
        !.status = COMPLETED,
        !.mercadopago_status = Some("approved"),
        !.detail = IF Truthy(a.detail) THEN a.detail ELSE @,
        !.last_sync_at = Some(now)]

\* updatedAt is "set on any mutation": an UPDATE that writes a column also
\* writes updated_at.
OnUpdate(cols) == IF cols = {} THEN {} ELSE cols \cup {"updated_at"}

\* The UPDATE the unit of work emits when the nested transaction ends: the
\* columns whose value differs from the loaded one, WHERE id = <loaded id>.
UpdateWrite(loaded, modified, now) ==
    [kind |-> "update",
     cols |-> OnUpdate({c \in Columns : loaded[c] # modified[c]}),
     row |-> [modified EXCEPT !.updated_at = now]]

\* The INSERT of db.add(instance): id from the sequence, created_at and
\* updated_at from the server default now().
InsertWrite(new, id, now) ==
    [kind |-> "insert", cols |-> Columns,
     row |-> [new EXCEPT !.id = id, !.created_at = now, !.updated_at = now]]

UniqueViolationNever(st, w) == FALSE

\* sa.UniqueConstraint("payment_id", name="uq_payment_sessions_payment_id")
UniqueViolation(st, w) ==
    /\ w.kind = "insert"
    /\ \E r \in st : r.payment_id = w.row.payment_id

PatchRow(r, w) ==
    [id |-> r.id,
     user_id |-> IF "user_id" \in w.cols THEN w.row.user_id ELSE r.user_id,
     payment_id |-> r.payment_id,
     preference_id |->
        IF "preference_id" \in w.cols THEN w.row.preference_id ELSE r.preference_id,
     status |-> IF "status" \in w.cols THEN w.row.status ELSE r.status,
     mercadopago_status |->
        IF "mercadopago_status" \in w.cols THEN w.row.mercadopago_status
        ELSE r.mercadopago_status,
     detail |-> IF "detail" \in w.cols THEN w.row.detail ELSE r.detail,
     credits_amount |->
        IF "credits_amount" \in w.cols THEN w.row.credits_amount ELSE r.credits_amount,
     amount |-> IF "amount" \in w.cols THEN w.row.amount ELSE r.amount,
     expires_at |-> IF "expires_at" \in w.cols THEN w.row.expires_at ELSE r.expires_at,
     last_sync_at |->
        IF "last_sync_at" \in w.cols THEN w.row.last_sync_at ELSE r.last_sync_at,
     created_at |-> r.created_at,
     updated_at |-> IF "updated_at" \in w.cols THEN w.row.updated_at ELSE r.updated_at]

ApplyWriteDeleting(st, w) ==
    IF w.kind = "insert" THEN st \cup {w.row}
    ELSE {r \in st : r.id # w.row.id}

\* The table once the statement of w is committed.
ApplyWrite(st, w) ==
    IF w.kind = "insert" THEN st \cup {w.row}
    ELSE {IF r.id = w.row.id THEN PatchRow(r, w) ELSE r : r \in st}

\* The write of one call, from what its SELECT found.
WriteOf(op, found, a, now, id) ==
    IF found = {} THEN InsertWrite(NewSession(a, now), id, now)
    ELSE LET instance == CHOOSE r \in found : TRUE IN
         IF op = "mark" THEN UpdateWrite(instance, MarkCompletedUpdate(instance, a, now), now)
         ELSE UpdateWrite(instance, MergeUpdate(instance, a, now), now)

\* ------------------------------------------------------------------- tasks

MarkNoOpNever(op, found) == FALSE

\* mark_completed: if not instance: return
MarkNoOp(op, found) == op = "mark" /\ found = {}

\* What a read returns, with the arguments it was called with: latest is the
\* Optional[PaymentSnapshot] ({} for None), state the PaymentAccessState.
NoOut ==
    [user_id |-> 0, credits_balance |-> 0, ledger |-> {}, latest |-> {},
     has_paid_history |-> FALSE, can_access |-> FALSE, state |-> "none"]

IdleTask ==
    [pc |-> "idle", op |-> "none", a |-> NoArgs, found |-> {}, now |-> 0,
     pend |-> {}, ret |-> "none", out |-> NoOut]

Init ==
    /\ store = {}
    /\ nextId = 1
    /\ clock = 0
    /\ task = [t \in Tasks |-> IdleTask]

\* ---------------------------------------------------- the calls, one at a time

Finished(t, op, a, found, now, pc, ret) ==
    [task EXCEPT ![t] =
        [pc |-> pc, op |-> op, a |-> a, found |-> found, now |-> now,
         pend |-> {}, ret |-> ret, out |-> NoOut]]

\* A whole call made when the clocks read now: the SELECT, the nested
\* transaction and the commit.
RunAt(t, op, a, now) ==
    LET found == SelectByPaymentId(store, a.payment_id)
    IN  /\ clock' = now
        /\ IF Cardinality(found) > 1
           THEN /\ task' = Finished(t, op, a, found, now, "failed", "MultipleResultsFound")
                /\ UNCHANGED <<store, nextId>>
           ELSE IF MarkNoOp(op, found)
           THEN /\ task' = Finished(t, op, a, found, now, "done", "None")
                /\ UNCHANGED <<store, nextId>>
           ELSE LET w == WriteOf(op, found, a, now, nextId) IN
                /\ nextId' = IF w.kind = "insert" THEN nextId + 1 ELSE nextId
                /\ IF UniqueViolation(store, w)
                   THEN /\ store' = store
                        /\ task' = Finished(t, op, a, found, now, "failed", "IntegrityError")
                   ELSE /\ store' = ApplyWrite(store, w)
                        /\ task' = Finished(t, op, a, found, now, "done",
                                            IF op = "mark" THEN "None" ELSE "row")

ReturnNoneUpserting(t, op, a) == RunAt(t, op, a, clock + 1)

\* A precondition failure: the call logs and returns None before any query.
\* a holds what the call had resolved of its arguments: payment_id "" for a
\* payload without id, user_id 0 for a call without user.
ReturnNone(t, op, a) ==
    /\ clock' = clock + 1
    /\ task' = Finished(t, op, a, {}, clock + 1, "done", "None")
    /\ UNCHANGED <<store, nextId>>

\* A whole call, the clock having advanced since the call before.
RunToCommit(t, op, a) == RunAt(t, op, a, clock + 1)

\* payment: the gateway's payment dict (id, metadata.credits_amount,
\* transaction_amount, date_of_expiration, status_detail, status).
RegisterArgs(user_id, payment, preference_id) ==
    UpsertArgs(user_id, payment.id[1], preference_id,
               _map_mp_status(payment.status), payment.status,
               payment.status_detail, IntOrNone(payment.credits_amount),
               _to_decimal(payment.transaction_amount),
               _parse_datetime(payment.date_of_expiration))

\* register_payment_attempt called when the clocks read now.
register_payment_attempt_at(t, user_id, payment, preference_id, now) ==
    IF ~Truthy(payment.id)
    THEN ReturnNone(t, "register", [NoArgs EXCEPT !.user_id = user_id])
    ELSE RunAt(t, "register", RegisterArgs(user_id, payment, preference_id), now)

register_payment_attempt(t, user_id, payment, preference_id) ==
    register_payment_attempt_at(t, user_id, payment, preference_id, clock + 1)

\* a or b on two Optional[str]
OrElse(x, y) == IF Truthy(x) THEN x ELSE y

ResolvedUserMetadataFirst(user_id, info) ==
    IF info.meta_user_id \notin {None, Some(0)} THEN info.meta_user_id ELSE user_id

\* user_id or metadata.get("user_id"): None and 0 are falsy.
ResolvedUser(user_id, info) ==
    IF user_id \notin {None, Some(0)} THEN user_id ELSE info.meta_user_id

SyncArgs(payment_id, user_id, info) ==
    UpsertArgs(ResolvedUser(user_id, info)[1], payment_id[1],
               OrElse(info.meta_preference_id, info.preference_id),
               _map_mp_status(info.status), info.status, info.status_detail,
               IntOrNone(info.credits_amount),
               _to_decimal(info.transaction_amount),
               _parse_datetime(OrElse(info.date_of_expiration, info.expiration_date)))

\* What the call has of its arguments when it gives up.
UnresolvedArgs(payment_id, user_id, info) ==
    [NoArgs EXCEPT
        !.payment_id = IF Truthy(payment_id) THEN payment_id[1] ELSE "",
        !.user_id = IF ResolvedUser(user_id, info) \in {None, Some(0)} THEN 0
                    ELSE ResolvedUser(user_id, info)[1]]

sync_with_payment_info_any_user(t, payment_id, user_id, info) ==
    IF ~Truthy(payment_id)
    THEN ReturnNone(t, "sync", UnresolvedArgs(payment_id, user_id, info))
    ELSE RunToCommit(t, "sync",
             [SyncArgs(payment_id, Some(1), info) EXCEPT
                 !.user_id = UnresolvedArgs(payment_id, user_id, info).user_id])

sync_with_payment_info(t, payment_id, user_id, info) ==
    IF ~Truthy(payment_id)
    THEN ReturnNone(t, "sync", UnresolvedArgs(payment_id, user_id, info))
    ELSE IF ResolvedUser(user_id, info) \in {None, Some(0)}
    THEN ReturnNone(t, "sync", UnresolvedArgs(payment_id, user_id, info))
    ELSE RunToCommit(t, "sync", SyncArgs(payment_id, user_id, info))

MarkArgs(payment_id, detail) ==
    UpsertArgs(0, payment_id, None, COMPLETED, Some("approved"), detail, None, None, None)

mark_completed(t, payment_id, detail) ==
    RunToCommit(t, "mark", MarkArgs(payment_id, detail))

\* ------------------------------------------------------------------- reads

\* PaymentAccessState
READY == "ready_for_platform"

AWAITING == "awaiting_payment"

NEEDS_PAYMENT == "needs_payment"

PAYMENT_FAILED == "payment_failed"

\* The fields of PaymentSnapshot: the row without id and user_id.
PaymentSnapshot(record) ==
    [c \in Columns \ {"id", "user_id"} |-> record[c]]

\* .where(user_id == user_id).order_by(desc(created_at)).limit(1): the rows
\* the statement may return. The order among rows of equal created_at is
\* not specified by the statement, so LIMIT 1 returns any one of them.
LatestCandidates(st, user_id) ==
    {r \in st : /\ r.user_id = user_id
                /\ \A q \in st : q.user_id = user_id => q.created_at <= r.created_at}

\* The Optional[PaymentSnapshot] results of fetch_latest_session.
LatestResults(st, user_id) ==
    IF LatestCandidates(st, user_id) = {} THEN {{}}
    ELSE {{PaymentSnapshot(r)} : r \in LatestCandidates(st, user_id)}

\* A finished read: the table and the sequence are not touched.
ReadDone(t, op, ret, out) ==
    /\ clock' = clock + 1
    /\ task' = [task EXCEPT ![t] =
                  [pc |-> "done", op |-> op, a |-> NoArgs, found |-> {},
                   now |-> clock + 1, pend |-> {}, ret |-> ret, out |-> out]]
    /\ UNCHANGED <<store, nextId>>

fetch_latest_session_touching(t, user_id) ==
    \E r \in LatestCandidates(store, user_id) :
        /\ store' = ApplyWrite(store,
                       UpdateWrite(r, [r EXCEPT !.last_sync_at = Some(clock + 1)],
                                   clock + 1))
        /\ task' = [task EXCEPT ![t] =
                      [pc |-> "done", op |-> "fetch_latest_session", a |-> NoArgs,
                       found |-> {}, now |-> clock + 1, pend |-> {}, ret |-> "snapshot",
                       out |-> [NoOut EXCEPT !.user_id = user_id,
                                             !.latest = {PaymentSnapshot(r)}]]]
        /\ clock' = clock + 1
        /\ UNCHANGED nextId

fetch_latest_session(t, user_id) ==
    \E latest \in LatestResults(store, user_id) :
        ReadDone(t, "fetch_latest_session",
                 IF latest = {} THEN "None" ELSE "snapshot",
                 [NoOut EXCEPT !.user_id = user_id, !.latest = latest])

\* A reference that follows the gateway's naming: it starts with mp_.
GatewayReference(reference) ==
    Len(reference) >= 3 /\ reference[1] = "m" /\ reference[2] = "p"
        /\ reference[3] = "_"

\* reference_id LIKE 'mp_%' on a reference given by its characters: in the
\* pattern _ stands for any one character and % for any run of characters.
Like_mp(reference) ==
    Len(reference) >= 3 /\ reference[1] = "m" /\ reference[2] = "p"

\* A row of credit_transactions, by the columns the queries read.
CreditTransaction(user_id, transaction_type, reference_id) ==
    [user_id |-> user_id, transaction_type |-> transaction_type,
     reference_id |-> reference_id]

_has_successful_payment_purchases_only(st, ledger, user_id) ==
    \E e \in ledger :
        /\ e.user_id = user_id
        /\ e.transaction_type = "purchase"
        /\ \/ e.reference_id = None
           \/ Like_mp(e.reference_id[1])

\* _has_successful_payment: the session query first, the purchase query if
\* it finds nothing.
_has_successful_payment(st, ledger, user_id) ==
    IF \E r \in st : r.user_id = user_id /\ r.status \in {COMPLETED, APPROVED}
    THEN TRUE
    ELSE \E e \in ledger :
            /\ e.user_id = user_id
            /\ e.transaction_type = "purchase"
            /\ \/ e.reference_id = None
               \/ Like_mp(e.reference_id[1])

\* CreditService.user_has_paid_access: the existence check for purchase
\* transactions whose reference is absent or named as the gateway names its
\* references.
user_has_paid_access(ledger, user_id) ==
    \E e \in ledger :
        /\ e.user_id = user_id
        /\ e.transaction_type = "purchase"
        /\ \/ e.reference_id = None
           \/ GatewayReference(e.reference_id[1])

\* has_paid_history of get_user_state: looked up only when the balance is
\* not positive.
HasPaidHistory(st, ledger, user_id, credits_balance) ==
    IF credits_balance <= 0
    THEN IF user_has_paid_access(ledger, user_id) THEN TRUE
         ELSE _has_successful_payment(st, ledger, user_id)
    ELSE FALSE

CanAccessHistoryOnly(credits_balance, has_paid_history) == has_paid_history

\* can_access = credits_balance > 0 or has_paid_history
CanAccess(credits_balance, has_paid_history) ==
    credits_balance > 0 \/ has_paid_history

AccessStateFromSessionFirst(can_access, latest) ==
    IF latest = {} THEN (IF can_access THEN READY ELSE NEEDS_PAYMENT)
    ELSE LET latest_session == CHOOSE s \in latest : TRUE IN
         IF latest_session.status \in {PENDING, APPROVED} THEN AWAITING
         ELSE IF latest_session.status \in {FAILED, EXPIRED} THEN PAYMENT_FAILED
         ELSE IF can_access THEN READY ELSE NEEDS_PAYMENT

\* state of get_user_state
AccessState(can_access, latest) ==
    IF can_access THEN READY
    ELSE IF latest # {}
    THEN LET latest_session == CHOOSE s \in latest : TRUE IN
         IF latest_session.status \in {PENDING, APPROVED} THEN AWAITING
         ELSE IF latest_session.status \in {FAILED, EXPIRED} THEN PAYMENT_FAILED
         ELSE NEEDS_PAYMENT
    ELSE NEEDS_PAYMENT

\* get_user_state: credits_balance is what _get_valid_credits_balance
\* returns and ledger the credit_transactions table at the call.
get_user_state(t, user_id, credits_balance, ledger) ==
    \E latest \in LatestResults(store, user_id) :
        LET has_paid_history == HasPaidHistory(store, ledger, user_id, credits_balance)
            can_access == CanAccess(credits_balance, has_paid_history)
        IN  ReadDone(t, "get_user_state", "dict",
                     [user_id |-> user_id, credits_balance |-> credits_balance,
                      ledger |-> ledger, latest |-> latest,
                      has_paid_history |-> has_paid_history,
                      can_access |-> can_access,
                      state |-> AccessState(can_access, latest)])

\* _has_successful_payment as a call of its own.
has_successful_payment(t, user_id, ledger) ==
    ReadDone(t, "_has_successful_payment", "bool",
             [NoOut EXCEPT !.user_id = user_id, !.ledger = ledger,
                           !.has_paid_history =
                               _has_successful_payment(store, ledger, user_id)])

\* ------------------------------------------------------------------ inputs

Payment(id, status, status_detail, credits_amount, transaction_amount, date_of_expiration) ==
    [id |-> id, status |-> status, status_detail |-> status_detail,
     credits_amount |-> credits_amount,
     transaction_amount |-> transaction_amount,
     date_of_expiration |-> date_of_expiration]

PaymentInfo(status, status_detail, credits_amount, transaction_amount, date_of_expiration, expiration_date, preference_id, meta_preference_id, meta_user_id) ==
    [status |-> status, status_detail |-> status_detail,
     credits_amount |-> credits_amount,
     transaction_amount |-> transaction_amount,
     date_of_expiration |-> date_of_expiration,
     expiration_date |-> expiration_date,
     preference_id |-> preference_id,
     meta_preference_id |-> meta_preference_id,
     meta_user_id |-> meta_user_id]

PaymentIds == {"p1", "p2"}

GatewayStatuses == {None, Some("approved"), Some("rejected"), Some("expired")}

Details == {None, Some("d1")}

MarkDetails == {None, Some(""), Some("settled")}

CreditTokens == {None, Some("500"), Some("750")}

AmountTokens == {None, Some("10.50"), Some("20")}

DateTokens == {None, Some("2024-05-01T12:00:00Z"), Some("2024-05-02T00:00:00")}

PreferenceIds == {None, Some(""), Some("prefA"), Some("prefB")}

\* ------------------------------------- Spec: statuses, calls one at a time

RegisterPaymentAttempt ==
    /\ clock < MaxCalls
    /\ \E id \in PaymentIds, s \in GatewayStatuses, d \in Details :
          register_payment_attempt("t1", 1, Payment(Some(id), s, d, None, None, None), None)

SyncWithPaymentInfo ==
    /\ clock < MaxCalls
    /\ \E id \in PaymentIds, s \in GatewayStatuses, d \in Details :
          sync_with_payment_info("t1", Some(id), Some(1),
              PaymentInfo(s, d, None, None, None, None, None, None, None))

MarkCompleted ==
    /\ clock < MaxCalls
    /\ \E id \in PaymentIds, d \in MarkDetails : mark_completed("t1", id, d)

Next == RegisterPaymentAttempt \/ SyncWithPaymentInfo \/ MarkCompleted

Spec == Init /\ [][Next]_vars

\* ------------------------------ SpecFields: the optional fields of one payment

RegisterFields ==
    /\ clock < MaxFieldCalls
    /\ \E c \in CreditTokens, m \in AmountTokens, p \in PreferenceIds :
          register_payment_attempt("t1", 1, Payment(Some("p1"), None, None, c, m, None), p)

SyncFields ==
    /\ clock < MaxFieldCalls
    /\ \E c \in CreditTokens, e \in DateTokens :
          sync_with_payment_info("t1", Some("p1"), Some(1),
              PaymentInfo(None, None, c, None, None, e, None, None, None))

MarkFields ==
    /\ clock < MaxFieldCalls
    /\ mark_completed("t1", "p1", None)

NextFields == RegisterFields \/ SyncFields \/ MarkFields

SpecFields == Init /\ [][NextFields]_vars

\* ------------------- SpecMark: one payment, registered and marked completed

RegisterFilled ==
    /\ clock < MaxMarkCalls
    /\ \E s \in GatewayStatuses, d \in Details, filled \in BOOLEAN :
          register_payment_attempt("t1", 1,
              Payment(Some("p1"), s, d,
                      IF filled THEN Some("500") ELSE None,
                      IF filled THEN Some("10.50") ELSE None,
                      IF filled THEN Some("2024-05-01T12:00:00Z") ELSE None),
              IF filled THEN Some("prefA") ELSE None)

MarkAnyStatus ==
    /\ clock < MaxMarkCalls
    /\ \E d \in MarkDetails : mark_completed("t1", "p1", d)

SyncAfterMark ==
    /\ clock < MaxMarkCalls
    /\ \E s \in GatewayStatuses :
          sync_with_payment_info("t1", Some("p1"), Some(1),
              PaymentInfo(s, None, None, None, None, None, None, None, None))

NextMark == RegisterFilled \/ MarkAnyStatus \/ SyncAfterMark

SpecMark == Init /\ [][NextMark]_vars

\* --------------- SpecInput: payloads without id, calls without a user

PayloadIds == {None, Some(""), Some("p1"), Some("p2")}

ExplicitUsers == {None, Some(0), Some(1)}

MetadataUsers == {None, Some(0), Some(2)}

InputStatuses == {None, Some("rejected")}

RegisterAnyId ==
    /\ clock < MaxInputCalls
    /\ \E id \in PayloadIds, s \in InputStatuses, p \in {None, Some("prefA")} :
          register_payment_attempt("t1", 1, Payment(id, s, None, None, None, None), p)

SyncAnyUser ==
    /\ clock < MaxInputCalls
    /\ \E id \in PayloadIds, u \in ExplicitUsers, m \in MetadataUsers,
          s \in InputStatuses :
          sync_with_payment_info("t1", id, u,
              PaymentInfo(s, None, None, None, None, None, None, None, m))

NextInput == RegisterAnyId \/ SyncAnyUser

SpecInput == Init /\ [][NextInput]_vars

\* -------------------- SpecAccess: the writes and the reads, one at a time

UserIds == {1, 2}

AccessStatuses == {None, Some("approved"), Some("rejected")}

References ==
    {None, Some(<<"m", "p", "_", "1">>), Some(<<"m", "p", "x", "1">>),
     Some(<<"a", "d", "m">>)}

\* Purchases of the user with every reference, and rows of another type or
\* of another user with the references a purchase of the user counts with.
LedgerEntries ==
    {CreditTransaction(1, "purchase", ref) : ref \in References}
    \cup {CreditTransaction(u, ty, ref) :
             u \in UserIds, ty \in {"purchase", "usage"},
             ref \in {None, Some(<<"m", "p", "_", "1">>)}}

\* The credit_transactions tables of at most two rows, and of at most one.
Ledgers == {{}} \cup {{e, f} : e \in LedgerEntries, f \in LedgerEntries}

SmallLedgers == {{}} \cup {{e} : e \in LedgerEntries}

Balances == {-1, 0, 10}

AccessRegister ==
    /\ clock < MaxAccessCalls
    /\ \E u \in UserIds, id \in PaymentIds, s \in AccessStatuses :
          register_payment_attempt("t1", u, Payment(Some(id), s, None, None, None, None), None)

AccessSync ==
    /\ clock < MaxAccessCalls
    /\ sync_with_payment_info("t1", Some("p1"), Some(1),
           PaymentInfo(Some("expired"), None, None, None, None, None, None, None, None))

AccessMark ==
    /\ clock < MaxAccessCalls
    /\ mark_completed("t1", "p1", None)

FetchLatestSession ==
    /\ clock < MaxAccessCalls
    /\ \E u \in UserIds : fetch_latest_session("t1", u)

HasSuccessfulPayment ==
    /\ clock < MaxAccessCalls
    /\ \E ledger \in Ledgers : has_successful_payment("t1", 1, ledger)

GetUserState ==
    /\ clock < MaxAccessCalls
    /\ \E credits_balance \in Balances, ledger \in SmallLedgers :
          get_user_state("t1", 1, credits_balance, ledger)

NextAccess ==
    \/ AccessRegister \/ AccessSync \/ AccessMark
    \/ FetchLatestSession \/ HasSuccessfulPayment \/ GetUserState

SpecAccess == Init /\ [][NextAccess]_vars

\* ------------- SpecLatest: sessions created within one reading of the clock

\* created_at is the database's now(); two registrations may fall within
\* one reading of it.
LatestRegister ==
    /\ clock < MaxLatestCalls
    /\ \E u \in UserIds, id \in PaymentIds, now \in {clock, clock + 1} :
          register_payment_attempt_at("t1", u,
              Payment(Some(id), None, None, None, None, None), None, now)

LatestSync ==
    /\ clock < MaxLatestCalls
    /\ \E id \in PaymentIds :
          sync_with_payment_info("t1", Some(id), Some(1),
              PaymentInfo(Some("rejected"), None, None, None, None, None, None, None, None))

LatestMark ==
    /\ clock < MaxLatestCalls
    /\ \E id \in PaymentIds : mark_completed("t1", id, None)

LatestFetch ==
    /\ clock < MaxLatestCalls
    /\ \E u \in UserIds : fetch_latest_session("t1", u)

NextLatest == LatestRegister \/ LatestSync \/ LatestMark \/ LatestFetch

SpecLatest == Init /\ [][NextLatest]_vars

\* ------------------------ SpecStatus: every token of the gateway's status

StatusTokens ==
    {None, Some(""), Some("pending"), Some("in_process"), Some("approved"),
     Some("authorized"), Some("cancelled"), Some("rejected"), Some("refunded"),
     Some("charged_back"), Some("expired"), Some("APPROVED"), Some("Rejected"),
     Some("In_Process"), Some("EXPIRED"), Some("Charged_Back"),
     Some("completed"), Some("COMPLETED"), Some("failed"), Some("chargeback"),
     Some(" approved")}

StatusRegister ==
    /\ clock < MaxStatusCalls
    /\ \E s \in StatusTokens :
          register_payment_attempt("t1", 1, Payment(Some("p1"), s, None, None, None, None), None)

StatusSync ==
    /\ clock < MaxStatusCalls
    /\ \E s \in StatusTokens :
          sync_with_payment_info("t1", Some("p1"), Some(1),
              PaymentInfo(s, None, None, None, None, None, None, None, None))

StatusMark ==
    /\ clock < MaxStatusCalls
    /\ mark_completed("t1", "p1", None)

NextStatus == StatusRegister \/ StatusSync \/ StatusMark

SpecStatus == Init /\ [][NextStatus]_vars

\* ------- SpecBackfill: migration 006 on a credit_transactions table

\* A reference is the sequence of the pieces of its text; rn as text.
RowNumberText(rn) ==
    CASE rn = 1 -> "1" [] rn = 2 -> "2" [] rn = 3 -> "3" [] rn = 4 -> "4"
      [] rn = 5 -> "5"

\* ROW_NUMBER() OVER (PARTITION BY reference_id ORDER BY id)
RowNumber(table, row) ==
    Cardinality({q \in table : q.reference_id = row.reference_id /\ q.id <= row.id})

\* UPDATE ... SET reference_id = ct.reference_id || '__dup_' || ranked.rn
\* for the rows ranked (reference_id IS NOT NULL) with rn > 1.
BackfillUpdate(table) ==
    {IF row.reference_id # None /\ RowNumber(table, row) > 1
     THEN [row EXCEPT !.reference_id =
              Some(row.reference_id[1]
                   \o <<"__dup_", RowNumberText(RowNumber(table, row))>>)]
     ELSE row : row \in table}

\* The unique index on reference_id WHERE reference_id IS NOT NULL can be
\* built.
IndexBuilds(table) ==
    \A q, r \in table :
        (q.id # r.id /\ q.reference_id # None) => q.reference_id # r.reference_id

LegacyReferences ==
    {None, Some(<<"X">>), Some(<<"X", "__dup_", "2">>), Some(<<"Y">>)}

\* The tables of n rows, ids 1..n.
TablesOf(n) ==
    {{[id |-> i, reference_id |-> f[i]] : i \in 1..n} :
        f \in [1..n -> LegacyReferences]}

\* The migration starts on any table of at most MaxRows rows; out.ledger is
\* the table.
InitBackfill ==
    /\ store = {}
    /\ nextId = 1
    /\ clock = 0
    /\ \E n \in 0..MaxRows : \E table \in TablesOf(n) :
          task = [t \in Tasks |->
                    IF t = "t1"
                    THEN [IdleTask EXCEPT !.out = [NoOut EXCEPT !.ledger = table]]
                    ELSE IdleTask]

\* conn.execute(UPDATE ...): found keeps the table the statement read.
UpgradeBackfill ==
    /\ task["t1"].pc = "idle"
    /\ task' = [task EXCEPT
                  !["t1"].pc = "updated", !["t1"].op = "upgrade",
                  !["t1"].found = task["t1"].out.ledger,
                  !["t1"].out = [NoOut EXCEPT
                                    !.ledger = BackfillUpdate(task["t1"].out.ledger)]]
    /\ UNCHANGED <<store, nextId, clock>>

\* op.create_index(..., unique=True): raises when two rows hold the same
\* reference.
UpgradeCreateIndex ==
    /\ task["t1"].pc = "updated"
    /\ task' = [task EXCEPT
                  !["t1"].pc = IF IndexBuilds(task["t1"].out.ledger)
                               THEN "done" ELSE "failed",
                  !["t1"].ret = IF IndexBuilds(task["t1"].out.ledger)
                                THEN "None" ELSE "IntegrityError"]
    /\ UNCHANGED <<store, nextId, clock>>

NextBackfill == UpgradeBackfill \/ UpgradeCreateIndex

SpecBackfill == InitBackfill /\ [][NextBackfill]_vars

\* ---------------- SpecOwner: one payment attributed to a user and corrected

OwnerStatuses == {None, Some("approved")}

\* The user of the request registers the payment, with its preference.
OwnerRegister ==
    /\ clock < MaxOwnerCalls
    /\ \E s \in OwnerStatuses :
          register_payment_attempt("t1", 1,
              Payment(Some("p1"), s, None, None, None, None), Some("prefA"))

OwnerSync ==
    /\ clock < MaxOwnerCalls
    /\ \E u \in ExplicitUsers, m \in MetadataUsers, s \in OwnerStatuses :
          sync_with_payment_info("t1", Some("p1"), u,
              PaymentInfo(s, None, None, None, None, None, None, None, m))

OwnerFetch ==
    /\ clock < MaxOwnerCalls
    /\ \E u \in UserIds : fetch_latest_session("t1", u)

OwnerHistory ==
    /\ clock < MaxOwnerCalls
    /\ \E u \in UserIds : has_successful_payment("t1", u, {})

NextOwner == OwnerRegister \/ OwnerSync \/ OwnerFetch \/ OwnerHistory

SpecOwner == Init /\ [][NextOwner]_vars

\* ------------- SpecParse: payloads with a malformed amount or expiration

MalformedAmounts == {Some("abc"), Some("12,50"), Some("NaN")}

MalformedDates == {Some("not-a-date"), Some("2024-13-45T00:00:00")}

AmountInputs == {None, Some("10.50"), Some("20")} \cup MalformedAmounts

DateInputs == {None, Some("2024-05-01T12:00:00Z")} \cup MalformedDates

ParseRegister ==
    /\ clock < MaxParseCalls
    /\ \E s \in InputStatuses, m \in AmountInputs, e \in DateInputs :
          register_payment_attempt("t1", 1,
              Payment(Some("p1"), s, Some("d1"), Some("500"), m, e), Some("prefA"))

ParseSync ==
    /\ clock < MaxParseCalls
    /\ \E s \in InputStatuses, m \in AmountInputs, e \in DateInputs :
          sync_with_payment_info("t1", Some("p1"), Some(1),
              PaymentInfo(s, Some("d1"), Some("500"), m, e, None, None, None, None))

NextParse == ParseRegister \/ ParseSync

SpecParse == Init /\ [][NextParse]_vars

\* ------------------------- SpecConc: two request tasks, one session each

\* The committed table once a transaction is rolled back: its flushed
\* statements are discarded.
RollbackKeepingFlushed(st, pend) ==
    IF pend = {} THEN st ELSE ApplyWrite(st, CHOOSE w \in pend : TRUE)

Rollback(st, pend) == st

\* A statement waits for the row lock (UPDATE) or the index entry (INSERT of
\* the same payment_id) another open transaction holds.
Blocked(t, w) ==
    \E u \in Tasks \ {t} : \E p \in task[u].pend :
        \/ w.kind = "update" /\ p.kind = "update" /\ p.row.id = w.row.id
        \/ w.kind = "insert" /\ p.kind = "insert"
              /\ p.row.payment_id = w.row.payment_id

\* result = await db.execute(stmt); instance = result.scalar_one_or_none();
\* now = datetime.utcnow()
Select(t, op, a) ==
    LET now == clock + 1
        found == SelectByPaymentId(store, a.payment_id)
    IN  /\ task[t].pc \in {"idle", "done", "failed"}
        /\ clock' = now
        /\ task' =
             IF Cardinality(found) > 1
             THEN Finished(t, op, a, found, now, "failed", "MultipleResultsFound")
             ELSE IF MarkNoOp(op, found)
             THEN Finished(t, op, a, found, now, "done", "None")
             ELSE Finished(t, op, a, found, now, "selected", "none")
        /\ UNCHANGED <<store, nextId>>

\* The end of "async with db.begin_nested()": the unit of work sends its
\* INSERT or UPDATE inside the open transaction.
Flush(t) ==
    /\ task[t].pc = "selected"
    /\ LET w == WriteOf(task[t].op, task[t].found, task[t].a, task[t].now, nextId) IN
       /\ ~Blocked(t, w)
       /\ nextId' = IF w.kind = "insert" THEN nextId + 1 ELSE nextId
       /\ IF UniqueViolation(store, w)
          THEN /\ store' = Rollback(store, {})
               /\ task' = [task EXCEPT ![t].pc = "failed", ![t].ret = "IntegrityError"]
          ELSE /\ store' = store
               /\ task' = [task EXCEPT ![t].pc = "flushed", ![t].pend = {w}]
    /\ UNCHANGED clock

\* await db.commit()
Commit(t) ==
    /\ task[t].pc = "flushed"
    /\ store' = ApplyWrite(store, CHOOSE w \in task[t].pend : TRUE)
    /\ task' = [task EXCEPT ![t].pc = "done", ![t].pend = {},
                            ![t].ret = IF task[t].op = "mark" THEN "None" ELSE "row"]
    /\ UNCHANGED <<nextId, clock>>

\* The connection is lost before the commit: the exception leaves the call
\* and the transaction is rolled back.
Fail(t) ==
    /\ task[t].pc \in {"selected", "flushed"}
    /\ store' = Rollback(store, task[t].pend)
    /\ task' = [task EXCEPT ![t].pc = "failed", ![t].pend = {},
                            ![t].ret = IF task[t].pc = "flushed"
                                       THEN "ConnectionErrorOnCommit"
                                       ELSE "ConnectionErrorOnFlush"]
    /\ UNCHANGED <<nextId, clock>>

ConcStatuses == {None, Some("rejected")}

ConcRegister ==
    /\ clock < MaxConcCalls
    /\ \E t \in Tasks, s \in ConcStatuses, d \in Details :
          Select(t, "register",
                 RegisterArgs(1, Payment(Some("p1"), s, d, None, None, None), None))

ConcSync ==
    /\ clock < MaxConcCalls
    /\ \E t \in Tasks, id \in PaymentIds :
          Select(t, "sync",
                 SyncArgs(Some(id), Some(1),
                          PaymentInfo(None, None, Some("500"), None, None, None, None, None, None)))

ConcMark ==
    /\ clock < MaxConcCalls
    /\ \E t \in Tasks : Select(t, "mark", MarkArgs("p1", None))

ConcFlush == \E t \in Tasks : Flush(t)

ConcCommit == \E t \in Tasks : Commit(t)

ConcFail == \E t \in Tasks : Fail(t)

NextConc ==
    ConcRegister \/ ConcSync \/ ConcMark \/ ConcFlush \/ ConcCommit \/ ConcFail

SpecConc == Init /\ [][NextConc]_vars

\* ------------------------------------------------------------------ claims

Upserts == {"register", "sync"}

\* The call of task t was an upsert that committed.
UpsertDone(t) ==
    task[t].pc = "done" /\ task[t].op \in Upserts /\ task[t].ret = "row"

\* ... on a session its SELECT found.
OnExisting(t) == UpsertDone(t) /\ task[t].found # {}

\* The row the call of t loaded, and the stored row of its payment.
Before(t) == CHOOSE r \in task[t].found : TRUE

After(t) == CHOOSE r \in SelectByPaymentId(store, task[t].a.payment_id) : TRUE

Terminal == {FAILED, EXPIRED}

\* C1: with the calls made one at a time, a call of registerAttempt or
\* syncFromGateway whose mapped status is failed or expired, made on a
\* payment whose stored status is completed, leaves that status completed.
C1_CompletedSurvivesTerminalUpsert ==
    [][\A r \in store :
          (/\ r.status = COMPLETED
           /\ clock' # clock
           /\ task'["t1"].op \in Upserts
           /\ task'["t1"].a.payment_id = r.payment_id
           /\ task'["t1"].a.status \in Terminal)
          => \A r2 \in SelectByPaymentId(store', r.payment_id) :
                r2.status = COMPLETED]_vars

C1_Witness ==
    /\ OnExisting("t1")
    /\ Before("t1").status = COMPLETED
    /\ task["t1"].a.status \in Terminal
    /\ task["t1"].a.mp_status = Some("rejected")
    /\ After("t1").status = COMPLETED

\* C2: under SpecConc (the lookup of an upsert may precede the commit of
\* markCompleted and its write follow it), a row committed as completed is
\* never afterwards stored as failed or expired.
C2_CommittedCompletedNeverRegresses ==
    [][\A r \in store : \A r2 \in store' :
          (r.status = COMPLETED /\ r2.id = r.id) => r2.status \notin Terminal]_vars

\* C3: the table holds at most one session per payment_id, and an upsert that
\* found a row leaves exactly that row for its payment, also when two upserts
\* of a payment that is not stored yet run concurrently.
C3_OneSessionPerPaymentId ==
    /\ \A r1 \in store : \A r2 \in store :
          r1.payment_id = r2.payment_id => r1 = r2
    /\ \A t \in Tasks :
          OnExisting(t) =>
             /\ Cardinality(SelectByPaymentId(store, task[t].a.payment_id)) = 1
             /\ After(t).id = Before(t).id

C3_Witness ==
    \E t \in Tasks : \E u \in Tasks \ {t} :
        /\ UpsertDone(t)
        /\ task[u].op \in Upserts
        /\ task[u].a.payment_id = task[t].a.payment_id
        /\ task[t].found = {} /\ task[u].found = {}
        /\ task[u].pc = "failed" /\ task[u].ret = "IntegrityError"
        /\ Cardinality(SelectByPaymentId(store, task[t].a.payment_id)) = 1

\* A row without the two timestamps every write sets.
Untimed(r) == [r EXCEPT !.last_sync_at = None, !.updated_at = 0]

\* C4: when two upserts of the same stored payment overlap (both loaded the
\* same row), the committed row is the merge of the two, one after the other
\* in some order (the call times left aside).
C4_ConcurrentUpsertsSerialize ==
    \A t \in Tasks : \A u \in Tasks \ {t} :
        (/\ UpsertDone(t) /\ UpsertDone(u)
         /\ task[t].found # {}
         /\ task[t].found = task[u].found)
        => LET r0 == Before(t)
               tu == MergeUpdate(MergeUpdate(r0, task[t].a, task[t].now),
                                 task[u].a, task[u].now)
               ut == MergeUpdate(MergeUpdate(r0, task[u].a, task[u].now),
                                 task[t].a, task[t].now)
           IN  Untimed(After(t)) \in {Untimed(tu), Untimed(ut)}

\* C5: an upsert repeated with the arguments of the upsert just committed
\* leaves one row for the payment with the same id and the same fields, but
\* for updated_at and last_sync_at, which both advance; no other row changes.
C5_RepeatedUpsertIdempotent ==
    [][(/\ clock' # clock
        /\ UpsertDone("t1")
        /\ task'["t1"].op \in Upserts
        /\ task'["t1"].a = task["t1"].a)
       => LET old == SelectByPaymentId(store, task["t1"].a.payment_id)
              new == SelectByPaymentId(store', task["t1"].a.payment_id)
          IN  /\ Cardinality(new) = 1
              /\ store' \ new = store \ old
              /\ \A r \in old : \A r2 \in new :
                    /\ r2.id = r.id
                    /\ Untimed(r2) = Untimed(r)
                    /\ r2.updated_at > r.updated_at
                    /\ r2.last_sync_at[1] > r.last_sync_at[1]]_vars

C5_Witness ==
    /\ OnExisting("t1")
    /\ Before("t1").created_at = task["t1"].now - 1
    /\ Before("t1").mercadopago_status = task["t1"].a.mp_status
    /\ Before("t1").detail = task["t1"].a.detail
    /\ Before("t1").status = task["t1"].a.status
    /\ Untimed(After("t1")) = Untimed(Before("t1"))
    /\ After("t1").last_sync_at = Some(task["t1"].now)

Errors ==
    {"IntegrityError", "MultipleResultsFound", "ConnectionErrorOnFlush",
     "ConnectionErrorOnCommit"}

\* C6: an upsert that has not committed, or has failed, has written nothing
\* a reader sees (no stored row carries its call time), and when it fails
\* its caller gets the error.
C6_FailedUpsertWritesNothing ==
    \A t \in Tasks :
        (task[t].op \in Upserts /\ task[t].pc \in {"selected", "flushed", "failed"})
        => /\ \A r \in store :
                 /\ r.last_sync_at # Some(task[t].now)
                 /\ r.updated_at # task[t].now
           /\ task[t].pc = "failed" => task[t].ret \in Errors

C6_Witness ==
    \E t \in Tasks :
        /\ task[t].op \in Upserts
        /\ task[t].pc = "failed"
        /\ task[t].ret = "ConnectionErrorOnCommit"
        /\ task[t].found # {}
        /\ \E r \in store : r.id = Before(t).id /\ r.last_sync_at # Some(task[t].now)

\* C7 as claimed: the status after an upsert on a stored session is the
\* stored one when that is completed and the new one is failed or expired,
\* and the new one in every other case.
C7_StatusAsClaimed ==
    OnExisting("t1") =>
        After("t1").status =
            IF Before("t1").status = COMPLETED /\ task["t1"].a.status \in Terminal
            THEN Before("t1").status
            ELSE task["t1"].a.status

\* C7, amended: the status after an upsert on a stored session is the stored
\* one whenever that is completed (whatever the new one), and the new one
\* otherwise.
C7_StatusMerge ==
    OnExisting("t1") =>
        After("t1").status =
            IF Before("t1").status = COMPLETED
            THEN COMPLETED
            ELSE task["t1"].a.status

C7_Witness ==
    /\ OnExisting("t1")
    /\ Before("t1").status = COMPLETED
    /\ task["t1"].a.status = APPROVED
    /\ After("t1").status = COMPLETED

\* C8: an upsert with mapped status failed or expired on a completed session
\* keeps the status, overwrites mercadopago_status and detail with the
\* values of the call (None included) and sets last_sync_at to the call time.
C8_GuardedUpsertWritesOtherFields ==
    (/\ OnExisting("t1")
     /\ Before("t1").status = COMPLETED
     /\ task["t1"].a.status \in Terminal)
    => /\ After("t1").status = COMPLETED
       /\ After("t1").mercadopago_status = task["t1"].a.mp_status
       /\ After("t1").detail = task["t1"].a.detail
       /\ After("t1").last_sync_at = Some(task["t1"].now)

C8_Witness ==
    /\ OnExisting("t1")
    /\ Before("t1").status = COMPLETED
    /\ task["t1"].a.status \in Terminal
    /\ Before("t1").detail # None
    /\ task["t1"].a.detail = None
    /\ After("t1").detail = None
    /\ After("t1").mercadopago_status # Before("t1").mercadopago_status

\* C9: an upsert on a stored session keeps the stored credits_amount, amount
\* and expires_at where the call carries None and stores the value of the
\* call where it carries one.
C9_FillNeverBlank ==
    OnExisting("t1") =>
        \A c \in {"credits_amount", "amount", "expires_at"} :
            After("t1")[c] =
                IF task["t1"].a[c] = None THEN Before("t1")[c] ELSE task["t1"].a[c]

C9_Witness ==
    /\ OnExisting("t1")
    /\ Before("t1").credits_amount = Some(500)
    /\ task["t1"].a.credits_amount = None
    /\ After("t1").credits_amount = Some(500)
    /\ Before("t1").amount = Some(1050)
    /\ task["t1"].a.amount = Some(2000)
    /\ After("t1").amount = Some(2000)

\* C10 as claimed: the stored credits_amount, once set, never decreases.
C10_CreditsNeverDecrease ==
    [][\A r \in store : \A r2 \in store' :
          (r2.id = r.id /\ r.credits_amount # None)
          => /\ r2.credits_amount # None
             /\ r2.credits_amount[1] >= r.credits_amount[1]]_vars

\* C10, amended: the stored credits_amount, once set, is never unset again
\* (a later upsert may replace it by any value, a smaller one included).
C10_CreditsNeverUnset ==
    [][\A r \in store : \A r2 \in store' :
          (r2.id = r.id /\ r.credits_amount # None)
          => r2.credits_amount # None]_vars

C10_Witness ==
    /\ OnExisting("t1")
    /\ Before("t1").credits_amount = Some(750)
    /\ After("t1").credits_amount = Some(500)

\* C11: an upsert on a stored session keeps the stored preference_id when the
\* call carries None or "" and stores the value of the call when it carries
\* a non-empty one; so no upsert erases a stored preference_id.
C11_PreferenceKeptUnlessNonEmpty ==
    OnExisting("t1") =>
        /\ After("t1").preference_id =
              IF Truthy(task["t1"].a.preference_id)
              THEN task["t1"].a.preference_id
              ELSE Before("t1").preference_id
        /\ Truthy(Before("t1").preference_id) => Truthy(After("t1").preference_id)

C11_Witness ==
    /\ OnExisting("t1")
    /\ Before("t1").preference_id = Some("prefA")
    /\ task["t1"].a.preference_id = Some("")
    /\ After("t1").preference_id = Some("prefA")

\* The call of task t was a mark_completed that found its session.
MarkDone(t) ==
    task[t].pc = "done" /\ task[t].op = "mark" /\ task[t].found # {}

MarkKeeps ==
    {"id", "user_id", "payment_id", "preference_id", "credits_amount",
     "amount", "expires_at"}

\* C12: mark_completed on a stored session, whatever its status, leaves it
\* completed with mercadopago_status approved, replaces detail only by a
\* non-empty detail, and leaves id, user_id, payment_id, preference_id,
\* credits_amount, amount and expires_at as they were.
C12_MarkCompletedEffect ==
    MarkDone("t1") =>
        /\ After("t1").status = COMPLETED
        /\ After("t1").mercadopago_status = Some("approved")
        /\ After("t1").detail =
              IF Truthy(task["t1"].a.detail) THEN task["t1"].a.detail
              ELSE Before("t1").detail
        /\ \A c \in MarkKeeps : After("t1")[c] = Before("t1")[c]

C12_Witness ==
    /\ MarkDone("t1")
    /\ Before("t1").status = FAILED
    /\ Before("t1").detail = Some("d1")
    /\ Before("t1").credits_amount # None
    /\ Before("t1").preference_id = Some("prefA")
    /\ task["t1"].a.detail = Some("")
    /\ After("t1").detail = Some("d1")
    /\ After("t1").status = COMPLETED

\* C14: a register_payment_attempt whose payload has no id (None or "")
\* returns None and leaves the table as it was: no row is inserted and no
\* stored row is changed.
C14_RegisterWithoutIdWritesNothing ==
    [][(task'["t1"].op = "register" /\ task'["t1"].a.payment_id = "")
          => /\ store' = store
             /\ nextId' = nextId
             /\ task'["t1"].pc = "done"
             /\ task'["t1"].ret = "None"]_vars

C14_Witness ==
    /\ task["t1"].op = "register"
    /\ task["t1"].a.payment_id = ""
    /\ task["t1"].ret = "None"
    /\ store # {}

\* C15: a sync_with_payment_info for which neither the user_id argument nor
\* metadata.user_id gives a user returns None and leaves the table as it
\* was, also when the payment has a stored session; and every stored session
\* has a user.
C15_SyncWithoutUserWritesNothing ==
    [][/\ \A r \in store' : r.user_id # 0
       /\ (task'["t1"].op = "sync" /\ task'["t1"].a.user_id = 0)
             => /\ store' = store
                /\ nextId' = nextId
                /\ task'["t1"].pc = "done"
                /\ task'["t1"].ret = "None"]_vars

C15_Witness ==
    /\ task["t1"].op = "sync"
    /\ task["t1"].a.user_id = 0
    /\ task["t1"].ret = "None"
    /\ SelectByPaymentId(store, task["t1"].a.payment_id) # {}

Reads == {"fetch_latest_session", "_has_successful_payment", "get_user_state"}

\* C13 as claimed: every change of the table is made by an upsert
\* (register_payment_attempt or sync_with_payment_info).
C13_OnlyUpsertWrites ==
    [][store' # store => task'["t1"].op \in Upserts]_vars

\* C13: every change of the table is made by an upsert or by mark_completed,
\* which selects, assigns and commits by itself; fetch_latest_session,
\* _has_successful_payment and get_user_state leave the table as it was.
C13_WritesByUpsertOrMarkCompleted ==
    [][/\ store' # store => task'["t1"].op \in Upserts \cup {"mark"}
       /\ task'["t1"].op \in Reads => store' = store /\ nextId' = nextId]_vars

C13_Witness ==
    /\ MarkDone("t1")
    /\ Before("t1").status = PENDING
    /\ After("t1").status = COMPLETED

\* C16: no call removes a session: every stored session is still stored after
\* any call, with the id and the payment_id it had, so the stored payment ids
\* only grow.
C16_NoSessionDeleted ==
    [][/\ \A r \in store : \E q \in store' :
             q.id = r.id /\ q.payment_id = r.payment_id
       /\ {r.payment_id : r \in store} \subseteq {q.payment_id : q \in store'}]_vars

C16_Witness ==
    /\ Cardinality(store) = 2
    /\ MarkDone("t1")
    /\ After("t1").id = Before("t1").id
    /\ After("t1").status # Before("t1").status

\* The call of task t was a fetch_latest_session.
LatestDone(t) ==
    task[t].pc = "done" /\ task[t].op = "fetch_latest_session"

SessionsOf(user_id) == {r \in store : r.user_id = user_id}

\* The session of the user created last, the later inserted one among those
\* of equal created_at.
NewestOf(user_id) ==
    CHOOSE r \in SessionsOf(user_id) :
        \A q \in SessionsOf(user_id) :
            \/ q.created_at < r.created_at
            \/ q.created_at = r.created_at /\ q.id <= r.id

\* C17: fetch_latest_session returns None for a user without session and
\* otherwise the session of the user created last, the one inserted later
\* among sessions of equal created_at.
C17_LatestIsNewestCreated ==
    LatestDone("t1") =>
        task["t1"].out.latest =
            IF SessionsOf(task["t1"].out.user_id) = {} THEN {}
            ELSE {PaymentSnapshot(NewestOf(task["t1"].out.user_id))}

\* The call of task t was a get_user_state.
StateDone(t) ==
    task[t].pc = "done" /\ task[t].op = "get_user_state"

\* C18: get_user_state returns can_access_platform true exactly when the
\* balance is positive or _has_successful_payment holds of the user, for
\* every balance, table of sessions and table of credit transactions.
C18_CanAccessIsBalanceOrHistory ==
    StateDone("t1") =>
        task["t1"].out.can_access =
            (\/ task["t1"].out.credits_balance > 0
             \/ _has_successful_payment(store, task["t1"].out.ledger,
                                        task["t1"].out.user_id))

C18_Witness ==
    /\ StateDone("t1")
    /\ task["t1"].out.credits_balance = 0
    /\ task["t1"].out.ledger = {}
    /\ SessionsOf(2) # {}
    /\ task["t1"].out.can_access

\* C19: get_user_state returns ready_for_platform exactly when can_access is
\* true; when it is false it returns needs_payment for a user without
\* session, awaiting_payment when the latest session is pending or approved
\* and payment_failed when it is failed or expired; it returns its dict, and
\* raises nothing, for a user without session.
C19_StateDerivation ==
    StateDone("t1") =>
        LET out == task["t1"].out IN
        /\ task["t1"].ret = "dict"
        /\ out.state = READY <=> out.can_access
        /\ out.latest = {} <=> SessionsOf(out.user_id) = {}
        /\ (~out.can_access /\ out.latest = {}) => out.state = NEEDS_PAYMENT
        /\ \A s \in out.latest :
             /\ (~out.can_access /\ s.status \in {PENDING, APPROVED})
                   => out.state = AWAITING
             /\ (~out.can_access /\ s.status \in {FAILED, EXPIRED})
                   => out.state = PAYMENT_FAILED

C19_Witness ==
    /\ StateDone("t1")
    /\ ~task["t1"].out.can_access
    /\ \E s \in task["t1"].out.latest : s.status = EXPIRED
    /\ task["t1"].out.state = PAYMENT_FAILED

\* The call of task t was a _has_successful_payment.
HistoryDone(t) ==
    task[t].pc = "done" /\ task[t].op = "_has_successful_payment"

\* C20: _has_successful_payment is true exactly when the user owns a session
\* completed or approved, or a credit transaction of type purchase whose
\* reference is absent or starts with mp_.
C20_HistoryExactlyAsClaimed ==
    HistoryDone("t1") =>
        LET out == task["t1"].out IN
        out.has_paid_history =
            (\/ \E r \in SessionsOf(out.user_id) : r.status \in {COMPLETED, APPROVED}
             \/ \E e \in out.ledger :
                   /\ e.user_id = out.user_id
                   /\ e.transaction_type = "purchase"
                   /\ \/ e.reference_id = None
                      \/ GatewayReference(e.reference_id[1]))

Canonical == {PENDING, APPROVED, COMPLETED, FAILED, EXPIRED}

\* The table of the status mapper, token by token, in every letter case the
\* gateway tokens of SpecStatus come in.
StatusTable(token) ==
    CASE token \in {None, Some("")} -> PENDING
      [] token \in {Some("pending"), Some("in_process"), Some("In_Process")} -> PENDING
      [] token \in {Some("approved"), Some("authorized"), Some("APPROVED")} -> APPROVED
      [] token \in {Some("cancelled"), Some("rejected"), Some("refunded"),
                    Some("charged_back"), Some("Rejected"), Some("Charged_Back")} -> FAILED
      [] token \in {Some("expired"), Some("EXPIRED")} -> EXPIRED
      [] OTHER -> PENDING

\* C21: the status an upsert maps from the gateway's token is the one of the
\* table (None, "", pending, in_process and every unknown token give pending;
\* approved, authorized give approved; cancelled, rejected, refunded,
\* charged_back give failed; expired gives expired), whatever the letter
\* case, and always one of the five statuses; a new session is stored with it.
C21_MapperMatchesTable ==
    UpsertDone("t1") =>
        /\ task["t1"].a.status = StatusTable(task["t1"].a.mp_status)
        /\ task["t1"].a.status \in Canonical
        /\ task["t1"].found = {} => After("t1").status = StatusTable(task["t1"].a.mp_status)

C21_Witness ==
    /\ UpsertDone("t1")
    /\ task["t1"].found = {}
    /\ task["t1"].a.mp_status = Some("Charged_Back")
    /\ After("t1").status = FAILED

\* C22: a mark_completed that finds no session of its payment writes nothing,
\* and the register_payment_attempt or sync_with_payment_info of that payment
\* made after it inserts the session as on a table mark_completed never
\* touched: one new row, with the mapped status of the payload and not
\* completed, the other rows as they were.
C22_LostCompletionLeavesNoTrace ==
    [][/\ (task'["t1"].op = "mark" /\ task'["t1"].found = {})
             => store' = store /\ nextId' = nextId
       /\ (/\ task["t1"].op = "mark" /\ task["t1"].found = {}
           /\ task'["t1"].op \in Upserts /\ task'["t1"].pc = "done"
           /\ task'["t1"].a.payment_id = task["t1"].a.payment_id)
             => /\ SelectByPaymentId(store, task["t1"].a.payment_id) = {}
                /\ \E r \in store' :
                      /\ store' = store \cup {r}
                      /\ r.id = nextId
                      /\ r.payment_id = task'["t1"].a.payment_id
                      /\ r.status = task'["t1"].a.status
                      /\ r.status # COMPLETED
                      /\ r.mercadopago_status = task'["t1"].a.mp_status]_vars

C22_Witness ==
    /\ UpsertDone("t1")
    /\ task["t1"].found = {}
    /\ task["t1"].now = 2
    /\ nextId = 2
    /\ clock = 2
    /\ After("t1").status = APPROVED

\* C23: with the calls made one at a time, a session whose status is
\* completed keeps that status through every register_payment_attempt,
\* sync_with_payment_info and mark_completed, a call that carries pending or
\* approved included.
C23_CompletedIsAbsorbing ==
    [][\A r \in store : r.status = COMPLETED =>
          \A q \in store' : q.id = r.id => q.status = COMPLETED]_vars

C23_Witness ==
    /\ OnExisting("t1")
    /\ Before("t1").status = COMPLETED
    /\ task["t1"].a.status = PENDING
    /\ task["t1"].op = "sync"
    /\ After("t1").status = COMPLETED

\* C24: register_payment_attempt and sync_with_payment_info never carry the
\* status completed, whatever the gateway's token (completed included), so
\* a session that becomes completed does so in a mark_completed.
C24_CompletedOnlyByMarkCompleted ==
    [][/\ task'["t1"].op \in Upserts => task'["t1"].a.status # COMPLETED
       /\ \A q \in store' :
             (q.status = COMPLETED /\ \A r \in store : r.id = q.id => r.status # COMPLETED)
                => task'["t1"].op = "mark"]_vars

C24_Witness ==
    /\ UpsertDone("t1")
    /\ task["t1"].a.mp_status = Some("COMPLETED")
    /\ After("t1").status = PENDING

\* C25: when get_user_state, evaluated on one state of the table, returns
\* can_access_platform false, the user owns no session approved or completed;
\* so awaiting_payment comes with a latest session that is pending, and
\* needs_payment never comes with a latest session that is completed.
C25_NoAccessMeansNoSuccessfulSession ==
    (StateDone("t1") /\ ~task["t1"].out.can_access) =>
        LET out == task["t1"].out IN
        /\ \A r \in SessionsOf(out.user_id) : r.status \notin {APPROVED, COMPLETED}
        /\ out.state = AWAITING => \A s \in out.latest : s.status = PENDING
        /\ out.state = AWAITING => out.latest # {}
        /\ out.state = NEEDS_PAYMENT => \A s \in out.latest : s.status # COMPLETED

C25_Witness ==
    /\ StateDone("t1")
    /\ ~task["t1"].out.can_access
    /\ task["t1"].out.state = AWAITING
    /\ \E s \in task["t1"].out.latest : s.status = PENDING
    /\ Cardinality(SessionsOf(1)) = 2

\* The backfill of task t has run.
Backfilled(t) == task[t].op = "upgrade"

\* C28: after the backfill no two rows of credit_transactions hold the same
\* non-null reference, the row of lowest id of every group of equal
\* references keeps its reference, and the rows without reference are as
\* they were, whatever the table held before.
C28_BackfillMakesReferencesUnique ==
    Backfilled("t1") =>
        LET before == task["t1"].found
            after == task["t1"].out.ledger
        IN  /\ \A q, r \in after :
                  (q.id # r.id /\ q.reference_id # None)
                     => q.reference_id # r.reference_id
            /\ \A b \in before :
                  (\A c \in before : c.reference_id = b.reference_id => b.id <= c.id)
                     => b \in after
            /\ \A b \in before : b.reference_id = None => b \in after

\* The user a sync_with_payment_info is for: the argument when it names a
\* user, metadata.user_id otherwise (<<>> when neither does).
UserOfSync(u, m) == IF u \notin {None, Some(0)} THEN u ELSE m

\* C26: an upsert on a stored session sets its user_id to the user of the
\* call (for sync_with_payment_info the argument when given, metadata.user_id
\* otherwise); from then on fetch_latest_session returns the session, and
\* _has_successful_payment counts it, for the user the row now holds and for
\* no other user.
C26_UpsertReassignsOwner ==
    [][/\ (task'["t1"].op = "register" /\ task'["t1"].ret = "row")
             => \A q \in store' : q.user_id = 1
       /\ \A u \in ExplicitUsers, m \in MetadataUsers, s \in OwnerStatuses :
             (/\ sync_with_payment_info("t1", Some("p1"), u,
                     PaymentInfo(s, None, None, None, None, None, None, None, m))
              /\ task'["t1"].ret = "row")
                => \A q \in store' : q.user_id = UserOfSync(u, m)[1]
       /\ task'["t1"].op = "fetch_latest_session"
             => task'["t1"].out.latest =
                   {PaymentSnapshot(r) : r \in {q \in store' :
                                                  q.user_id = task'["t1"].out.user_id}}
       /\ task'["t1"].op = "_has_successful_payment"
             => task'["t1"].out.has_paid_history =
                   (\E q \in store' : /\ q.user_id = task'["t1"].out.user_id
                                      /\ q.status \in {APPROVED, COMPLETED})]_vars

\* The session registered by user 1 (it holds the preference of the
\* registration) belongs to user 2 after a sync, and user 1 has no latest
\* session any more.
C26_Witness ==
    /\ LatestDone("t1")
    /\ task["t1"].out.user_id = 1
    /\ task["t1"].out.latest = {}
    /\ \E r \in store : r.user_id = 2 /\ r.preference_id = Some("prefA")

\* The stored value of a column of payment p1, None when p1 has no session.
StoredOr(st, column) ==
    IF SelectByPaymentId(st, "p1") = {} THEN None
    ELSE (CHOOSE r \in SelectByPaymentId(st, "p1") : TRUE)[column]

\* What an upsert of p1 whose amount is m and whose expiration is e must
\* leave: the row written, a malformed field as absent, the others as sent.
ParsedLeniently(s, m, e) ==
    /\ task'["t1"].pc = "done"
    /\ task'["t1"].ret = "row"
    /\ SelectByPaymentId(store', "p1") # {}
    /\ m \in MalformedAmounts => StoredOr(store', "amount") = StoredOr(store, "amount")
    /\ e \in MalformedDates => StoredOr(store', "expires_at") = StoredOr(store, "expires_at")
    /\ StoredOr(store', "amount") # Some(0)
    /\ StoredOr(store', "mercadopago_status") = s
    /\ StoredOr(store', "detail") = Some("d1")
    /\ StoredOr(store', "credits_amount") = Some(500)
    /\ StoredOr(store', "last_sync_at") = Some(clock')

\* C27: a register_payment_attempt or sync_with_payment_info whose
\* transaction_amount or date_of_expiration is malformed still writes the
\* session: the malformed field keeps the stored value (None on a new row,
\* never 0) and the other fields are written as sent.
C27_MalformedFieldIsAbsent ==
    [][\A s \in InputStatuses, m \in AmountInputs, e \in DateInputs :
          /\ register_payment_attempt("t1", 1,
                 Payment(Some("p1"), s, Some("d1"), Some("500"), m, e), Some("prefA"))
                => ParsedLeniently(s, m, e)
          /\ sync_with_payment_info("t1", Some("p1"), Some(1),
                 PaymentInfo(s, Some("d1"), Some("500"), m, e, None, None, None, None))
                => ParsedLeniently(s, m, e)]_vars

=============================================================================
